---- MODULE Spec2Model ----
(***************************************************************************)
(* Roster resolution and archive synchronisation of the chess coach tool   *)
(* (src/teacher_gui.py, TeacherChessApp; src/chess_simple.py,              *)
(* ChessToolTabs).                                                         *)
(*                                                                         *)
(* Text is modelled as a sequence of one-character strings, so that        *)
(* strip, lower, split, substring tests and the file-name substitutions    *)
(* are computed character by character, as the code computes them.  The    *)
(* Chinese message texts of the source are written as ASCII stand-ins.     *)
(***************************************************************************)
EXTENDS Integers, Sequences, FiniteSets, TLC

\* ------------------------------------------------------------------
\* Text
\* ------------------------------------------------------------------

\* Upper-case letters and their lower-case forms (str.lower()).
UpperChars == {"A", "B", "C", "D", "L", "X"}

LowerChar(c) ==
  CASE c = "A" -> "a"
    [] c = "B" -> "b"
    [] c = "C" -> "c"
    [] c = "D" -> "d"
    [] c = "L" -> "l"
    [] c = "X" -> "x"
    [] OTHER -> c

\* Characters \s matches.
SpaceChars == {" "}

\* ASCII letters, digits, hyphen and underscore: the class [0-9A-Za-z\-_].
DigitChars == {"0", "1", "2", "3", "4", "5", "6", "7", "8", "9"}
AsciiLetters ==
  UpperChars \cup {"a", "b", "c", "d", "i", "l", "n", "o", "u", "x", "z"}
FileSafeChars == AsciiLetters \cup DigitChars \cup {"-", "_"}

\* Characters of a CJK name, written by code point: letters to \w, but
\* outside [0-9A-Za-z\-_].
CjkChars == {"U5F20", "U4E09", "U674E", "U56DB", "U738B", "U4E94", "U8D75", "U516D"}

\* The class \w of a str pattern: letters (of any script), digits, underscore.
WordChars == AsciiLetters \cup DigitChars \cup CjkChars \cup {"_"}

Lower(s) == [i \in DOMAIN s |-> LowerChar(s[i])]

RECURSIVE RemoveChars(_, _)
\* s without its characters that lie in the set drop.
RemoveChars(s, drop) ==
  IF s = <<>> THEN <<>>
  ELSE IF Head(s) \in drop THEN RemoveChars(Tail(s), drop)
       ELSE <<Head(s)>> \o RemoveChars(Tail(s), drop)

\* A sanitizer that leaves the username as it is.
sanitize_username_Identity(username) == username

\* re.sub(r"\s+", "", username.strip())
sanitize_username(username) == RemoveChars(username, SpaceChars)

\* re.sub(r"[^0-9A-Za-z\-_]", "_", display) or fallback
SafeName(display, fallback) ==
  IF display = <<>> THEN fallback
  ELSE [i \in DOMAIN display |->
          IF display[i] \in FileSafeChars THEN display[i] ELSE "_"]

RECURSIVE LStrip(_)
LStrip(s) ==
  IF s # <<>> /\ Head(s) \in SpaceChars THEN LStrip(Tail(s)) ELSE s

RECURSIVE RStrip(_)
RStrip(s) ==
  IF s # <<>> /\ s[Len(s)] \in SpaceChars THEN RStrip(SubSeq(s, 1, Len(s) - 1)) ELSE s

\* str.strip()
Strip(s) == RStrip(LStrip(s))

RECURSIVE SplitAcc(_, _, _)
SplitAcc(s, words, cur) ==
  LET closed == IF cur = <<>> THEN words ELSE Append(words, cur)
  IN  IF s = <<>> THEN closed
      ELSE IF Head(s) \in SpaceChars THEN SplitAcc(Tail(s), closed, <<>>)
      ELSE SplitAcc(Tail(s), words, Append(cur, Head(s)))

\* str.split(): the maximal runs of characters that are not whitespace
Split(s) == SplitAcc(s, <<>>, <<>>)

\* sub in s, for str
Contains(sub, s) ==
  \E i \in 0..(Len(s) - Len(sub)) : SubSeq(s, i + 1, i + Len(sub)) = sub

\* re.sub(r"[^\w]", "", s)
StripNonWord(s) == RemoveChars(s, {s[i] : i \in DOMAIN s} \ WordChars)

Min(S) == CHOOSE x \in S : \A y \in S : x <= y

\* ------------------------------------------------------------------
\* Program constants and message texts
\* ------------------------------------------------------------------

\* self.archive_month_limit and self.recent_days
archive_month_limit == 18
recent_days == 14

\* timedelta(days=1) in seconds, the unit of the model's clock
SecondsPerDay == 24 * 60 * 60

\* "未找到": the value find_username returns when no tier matches
NOT_FOUND == <<"not_found">>

ERR_USERNAME_MISSING == "username missing"
ERR_NOT_FOUND_404 == "user does not exist or has no public games"
ERR_FORBIDDEN == "HTTP 403 (access denied)"
ERR_TIMEOUT == "request timed out"
ERR_BAD_FORMAT == "data format error"
ERR_INVALID_USERNAME == "invalid username"
ERR_NO_ARCHIVES == "no game archives found"
ERR_NO_RECENT_GAMES == "no game between the two in the recent days"
ERR_SAVE_FAILED == "games found but saving failed"
ERR_UNMATCHED == "username not matched"

\* f"网络错误: {exc}": the text carries the exception's own message
ErrNetwork(exc) == "network error: " \o exc

\* f"HTTP {resp.status_code}"
ErrHttp(status) == "HTTP " \o ToString(status)

\* ------------------------------------------------------------------
\* Responses of the remote service, as self.http.get delivers them
\* ------------------------------------------------------------------

\* requests.Timeout and any other requests.RequestException
TimeoutResp ==
  [k |-> "timeout", status |-> 0, j |-> "none", items |-> <<>>,
   msg |-> "read timed out"]
ConnErrResp ==
  [k |-> "connerr", status |-> 0, j |-> "none", items |-> <<>>,
   msg |-> "connection failed"]

\* A read timeout while the body is received: the session raises
\* requests.ConnectionError, no requests.Timeout, with the timeout's message.
StalledBodyResp ==
  [k |-> "connerr", status |-> 0, j |-> "none", items |-> <<>>,
   msg |-> "read timed out"]

\* str(exc) of the exception a failed request raises
ExcText(resp) == resp.msg

\* A response with a status other than 200; its body is never read.
StatusResp(status) ==
  [k |-> "http", status |-> status, j |-> "none", items |-> <<>>, msg |-> ""]

\* A 200 response.  j says what the body is: "notjson" (resp.json() raises),
\* "nondict" (JSON, but no object), "nolist" (an object whose entry is no
\* list), "list" (an object whose entry is the list items).
OkResp(j, items) ==
  [k |-> "http", status |-> 200, j |-> j, items |-> items, msg |-> ""]

FailStatuses == {404, 403, 500}

TransportFailures == {TimeoutResp, ConnErrResp} \cup {StatusResp(s) : s \in FailStatuses}

MalformedBodies == {OkResp("notjson", <<>>), OkResp("nondict", <<>>), OkResp("nolist", <<>>)}

\* ------------------------------------------------------------------
\* Archive client
\* ------------------------------------------------------------------

Returned(items, err) == [raised |-> FALSE, items |-> items, err |-> err]

\* An exception leaves the function: there is no (result, reason) pair.
Raised == [raised |-> TRUE, items |-> <<>>, err |-> ""]

\* get_player_archives, given the response of its one request
get_player_archives(username, resp) ==
  IF username = <<>> THEN Returned(<<>>, ERR_USERNAME_MISSING)
  ELSE IF resp.k # "http" THEN Returned(<<>>, ErrNetwork(ExcText(resp)))
  ELSE IF resp.status = 404 THEN Returned(<<>>, ERR_NOT_FOUND_404)
  ELSE IF resp.status = 403 THEN Returned(<<>>, ERR_FORBIDDEN)
  ELSE IF resp.status # 200 THEN Returned(<<>>, ErrHttp(resp.status))
  ELSE IF resp.j = "notjson" THEN Raised          \* resp.json() raises
  ELSE IF resp.j = "nondict" THEN Raised          \* data.get: AttributeError
  ELSE IF resp.j = "nolist" THEN Returned(<<>>, "")
  ELSE Returned(resp.items, "")

\* A cache test that never hits.
CacheHit_Never(archive_url, cache) == FALSE

\* archive_url in self.archive_cache
CacheHit(archive_url, cache) == archive_url \in DOMAIN cache

\* Whether get_archive_games sends a request for this reference.
ArchiveRequestSent(archive_url, cache) == ~CacheHit(archive_url, cache)

\* What get_archive_games returns, given the cache and the response of the
\* request it sends on a cache miss.
get_archive_games(archive_url, cache, resp) ==
  IF CacheHit(archive_url, cache) THEN Returned(cache[archive_url], "")
  ELSE IF resp.k = "timeout" THEN Returned(<<>>, ERR_TIMEOUT)
  ELSE IF resp.k # "http" THEN Returned(<<>>, ErrNetwork(ExcText(resp)))
  ELSE IF resp.status # 200 THEN
         IF resp.status = 403 THEN Returned(<<>>, ERR_FORBIDDEN)
         ELSE Returned(<<>>, ErrHttp(resp.status))
  ELSE IF resp.j = "notjson" THEN Raised          \* resp.json() raises
  ELSE IF resp.j = "nondict" THEN Returned(<<>>, "")
  ELSE IF resp.j = "nolist" THEN Returned(<<>>, ERR_BAD_FORMAT)
  ELSE Returned(resp.items, "")

\* A fetch that never stores its games.
StoresGames_Never(resp) == FALSE

\* A fetch that stores what it has whatever the outcome.
StoresGames_Always(resp) == TRUE

\* Whether the call stores its games: self.archive_cache[archive_url] = games
\* runs for a 200 response whose games value is a list.
StoresGames(resp) ==
  resp.k = "http" /\ resp.status = 200 /\ resp.j \in {"nondict", "list"}

\* self.archive_cache after the call.
CacheAfter(archive_url, cache, resp) ==
  IF CacheHit(archive_url, cache) THEN cache
  ELSE IF StoresGames(resp)
       THEN [u \in DOMAIN cache \cup {archive_url} |->
               IF u = archive_url THEN resp.items ELSE cache[u]]
       ELSE cache

\* ------------------------------------------------------------------
\* Game records, their time and the filter of download_pairing_games
\* ------------------------------------------------------------------

\* A field of a game object that may hold a timestamp: absent (or None), a
\* number, a string (v its time when one of the two formats parses it, else
\* Unparseable), or a value of another type.
Unparseable == 0 - 1
NoField == [k |-> "absent", v |-> 0]
NumField(t) == [k |-> "num", v |-> t]
StrField(t) == [k |-> "str", v |-> t]
OtherField == [k |-> "other", v |-> 0]

\* Python truth of a field value in the "or" chain (strings here are not empty).
Truthy(f) ==
  CASE f.k = "absent" -> FALSE
    [] f.k = "num" -> f.v # 0
    [] OTHER -> TRUE

None == [some |-> FALSE, t |-> 0]
Some(t) == [some |-> TRUE, t |-> t]

\* A conversion that gives the epoch when there is no time to convert.
extract_game_time_Epoch(game) ==
  LET timestamp ==
        IF Truthy(game.end_time) THEN game.end_time
        ELSE IF Truthy(game.finish_time) THEN game.finish_time
        ELSE IF Truthy(game.start_time) THEN game.start_time
        ELSE game.last_activity
  IN  IF timestamp.k = "num" THEN Some(timestamp.v)
      ELSE IF timestamp.k = "str" /\ timestamp.v # Unparseable THEN Some(timestamp.v)
      ELSE Some(0)

\* extract_game_time: the first truthy of end_time, finish_time, start_time,
\* last_activity, converted when it is a number or a parseable string.
extract_game_time(game) ==
  LET timestamp ==
        IF Truthy(game.end_time) THEN game.end_time
        ELSE IF Truthy(game.finish_time) THEN game.finish_time
        ELSE IF Truthy(game.start_time) THEN game.start_time
        ELSE game.last_activity
  IN  IF timestamp.k = "num" THEN Some(timestamp.v)
      ELSE IF timestamp.k = "str" /\ timestamp.v # Unparseable THEN Some(timestamp.v)
      ELSE None

\* A participants test that takes the colours into account.
ParticipantsMatch_Ordered(game, white_api, black_api) ==
  Lower(game.white) = white_api /\ Lower(game.black) = black_api

\* The participants test of the scan loop:
\* {game_white, game_black} != {white_api, black_api} skips the game.
ParticipantsMatch(game, white_api, black_api) ==
  {Lower(game.white), Lower(game.black)} = {white_api, black_api}

\* A recency test that also drops the game ending at the cutoff itself.
TooOld_Inclusive(game, cutoff) ==
  LET game_time == extract_game_time(game)
  IN  game_time.some /\ game_time.t <= cutoff

\* The recency test: game_time and game_time < cutoff skips the game.
TooOld(game, cutoff) ==
  LET game_time == extract_game_time(game)
  IN  game_time.some /\ game_time.t < cutoff

\* Whether the scan loop appends the game to matched_games.
KeepGame(game, white_api, black_api, cutoff) ==
  /\ ParticipantsMatch(game, white_api, black_api)
  /\ ~TooOld(game, cutoff)

\* datetime.utcnow() - timedelta(days=self.recent_days)
Cutoff(now) == now - recent_days * SecondsPerDay

\* The games of a fetched archive that the scan loop keeps, in order.
MatchedOf(games, white_api, black_api, cutoff) ==
  SelectSeq(games, LAMBDA g : KeepGame(g, white_api, black_api, cutoff))

\* white_api / black_api: self.sanitize_username(name).lower()
ApiName(username) == Lower(sanitize_username(username))

\* ------------------------------------------------------------------
\* Archive references and the selection of the ones to scan
\* ------------------------------------------------------------------

\* An archive reference: the player of the URL and the month its last two
\* path segments encode, as year * 12 + month; NoMonth when the URL does not
\* end in /YYYY/MM.
NoMonth == 0 - 1
ArchiveUrl(player, ym) == [player |-> player, ym |-> ym]

\* now.year * 12 + now.month of the model's clock
CurrentTotal == 2026 * 12 + 11

\* is_archive_recent
is_archive_recent(archive_url) ==
  IF archive_url.ym = NoMonth THEN TRUE
  ELSE (CurrentTotal - archive_url.ym) <= 2

\* A slice that takes the first n references.
LastN_First(seq, n) ==
  IF Len(seq) <= n THEN seq ELSE SubSeq(seq, 1, n)

\* archives[-self.archive_month_limit:]
LastN(seq, n) ==
  IF Len(seq) <= n THEN seq ELSE SubSeq(seq, Len(seq) - n + 1, Len(seq))

\* considered_archives of download_pairing_games
ConsideredArchives(archives) ==
  LET recent == SelectSeq(archives, is_archive_recent)
  IN  IF recent = <<>> THEN LastN(archives, archive_month_limit) ELSE recent

\* ------------------------------------------------------------------
\* File names of the saved games
\* ------------------------------------------------------------------

\* strftime("%Y%m%d_%H%M"): the time cut to its minute
DtStr(t) == t \div 60

\* re.sub(r"[<>:\"/\\|?*]", "_", filename)
BadFileChars == {"<", ">", ":", "\"", "/", "\\", "|", "?", "*"}
CleanFileChars(s) == [i \in DOMAIN s |-> IF s[i] \in BadFileChars THEN "_" ELSE s[i]]

\* f"{safe_white}_vs_{safe_black}_{dt_str}_{idx}.pgn" after the substitution;
\* the formatted minute and the index are each one element of the text.
FileName(white_display, black_display, game, idx, now) ==
  LET game_time == extract_game_time(game)
      dt_str == IF game_time.some THEN DtStr(game_time.t) ELSE DtStr(now)
  IN  CleanFileChars(
        SafeName(white_display, <<"w", "h", "i", "t", "e">>)
        \o <<"_", "v", "s", "_">>
        \o SafeName(black_display, <<"b", "l", "a", "c", "k">>)
        \o <<"_", ToString(dt_str), "_", ToString(idx), ".pgn">>)

\* ------------------------------------------------------------------
\* The session of the download engine: bounds and the remote service
\* ------------------------------------------------------------------

\* Longest pairing list of a batch.
MaxPairings == 2

\* The clock of the session, in seconds.
Now == 20000 * SecondsPerDay

\* Usernames as the roster stores them, and as the service spells them.
AL == <<"A", "l">>
BO == <<"b", "o">>
CU == <<"c", "u">>
DU == <<"d", "u">>

Game(id, white, black, end_time, pgn) ==
  [id |-> id, white |-> white, black |-> black, end_time |-> end_time,
   finish_time |-> NoField, start_time |-> NoField, last_activity |-> NoField,
   pgn |-> pgn]

\* The text of a game's "pgn" entry: NoPgn when absent or empty.
NoPgn == "" 

\* Two games of each pair that ended in the same minute, one game with a
\* missing PGN text, one game older than the retention window.
G1 == Game(1, AL, BO, NumField(Now - 3600), "pgn 1")
G2 == Game(2, BO, AL, NumField(Now - 1800), "pgn 2")
G3 == Game(3, CU, DU, NumField(Now - 3590), "pgn 3")
G4 == Game(4, DU, CU, NumField(Now - 1800), NoPgn)
G5 == Game(5, AL, BO, NumField(Cutoff(Now) - SecondsPerDay), "pgn 5")
G6 == Game(6, AL, CU, NumField(Now - 7200), "pgn 6")

\* The archive lists the service holds, per player (lower-cased name).
ServerArchives(player) ==
  IF player \in {Lower(AL)}
  THEN <<ArchiveUrl(player, CurrentTotal - 1), ArchiveUrl(player, CurrentTotal)>>
  ELSE <<ArchiveUrl(player, CurrentTotal)>>

\* The contents an archive can have when it is fetched: a closed month has
\* one content, the current month grows as games are played.
ServerGames(url) ==
  IF url.ym # CurrentTotal THEN
    IF url.player \in {Lower(AL), Lower(BO)} THEN {<<G5>>} ELSE {<<>>}
  ELSE IF url.player \in {Lower(AL), Lower(BO)} THEN {<<G6, G1>>, <<G6, G1, G2>>}
  ELSE {<<G3>>, <<G3, G4>>}

\* What a request for a player's archive list can deliver.
ArchiveListResponses(player) ==
  TransportFailures \cup MalformedBodies
    \cup {OkResp("list", <<>>), OkResp("list", ServerArchives(player))}

\* What a request for an archive can deliver.
ArchiveResponses(url) ==
  TransportFailures \cup MalformedBodies
    \cup {OkResp("list", games) : games \in ServerGames(url)}

\* Parsed pairings a batch can start from: display names as extracted from
\* the pasted text, usernames as find_username resolved them.
Pairing(white, black, white_username, black_username) ==
  [white |-> white, black |-> black,
   white_username |-> white_username, black_username |-> black_username]

PairingUniverse ==
  { Pairing(<<"U5F20", "U4E09">>, <<"U674E", "U56DB">>, AL, BO),
    Pairing(<<"U738B", "U4E94">>, <<"U8D75", "U516D">>, CU, DU),
    Pairing(<<"A", "l", "i">>, <<"X">>, AL, NOT_FOUND),
    Pairing(<<"X">>, <<"A", "l", "i">>, <<" ">>, AL) }

RECURSIVE SeqsUpTo(_, _)
\* The sequences over S of length 0 to n.
SeqsUpTo(S, n) ==
  IF n = 0 THEN {<<>>}
  ELSE LET shorter == SeqsUpTo(S, n - 1)
       IN  shorter \cup {Append(q, x) : q \in shorter, x \in S}

\* ------------------------------------------------------------------
\* State
\* ------------------------------------------------------------------

VARIABLES
  parsed_pairings,  \* self.parsed_pairings
  archive_cache,    \* self.archive_cache: archive reference -> games
  files,            \* the PGN files of the download folder: name -> text
  report,           \* the report file of the download folder
  pc,               \* where download_games stands
  idx,              \* download_games: the index of the loop
  success,          \* download_games: success
  failed,           \* download_games: failed, as <<index, reason>>
  sync,             \* the locals of the running download_pairing_games
  last_return,      \* what the last download_pairing_games returned
  attempted,        \* history: the pairing indexes the loop has taken up
  calls,            \* history: per archive reference, its get_archive_games calls
  scanned,          \* the game the scan loop has just tested
  students,         \* self.students, in the order the dict holds its entries
  resolved,         \* the last find_username call: its argument and result
  extracted,        \* the last pairing line handed to the extractor, and its result
  classes_data,     \* self.classes_data, in the order the dict holds its classes
  current_class,    \* self.current_class
  last_op,          \* history: the last operation of the class and pairing tabs
  listed,           \* two get_player_archives calls: their responses and results
  selected,         \* an archive list and the references the scan loop takes of it
  prepared,         \* the download directories, the clock and the last folder made
  dialog            \* the StudentDialog of the last handler, if it was edit_student

vars == <<parsed_pairings, archive_cache, files, report, pc, idx, success,
          failed, sync, last_return, attempted, calls, scanned, students,
          resolved, extracted, classes_data, current_class, last_op, listed,
          selected, prepared, dialog>>

\* The variables of the download engine, and the others.
download_vars == <<parsed_pairings, archive_cache, files, report, pc, idx,
                   success, failed, sync, last_return, attempted, calls>>
tool_vars == <<selected, prepared, dialog>>
desk_vars == <<extracted, classes_data, current_class, last_op, listed, tool_vars>>
other_vars == <<scanned, students, resolved, desk_vars>>

NoSync ==
  [white_api |-> <<>>, black_api |-> <<>>, archives |-> <<>>,
   white_err |-> "", black_err |-> "", matched_games |-> <<>>,
   last_error |-> "", todo |-> <<>>, widx |-> 0, saved_any |-> FALSE,
   written |-> 0, white_list |-> <<>>, black_asked |-> FALSE,
   black_list |-> <<>>, requests |-> 0]

\* What download_pairing_games returned: ok, the reason, the number of games
\* its message states; and, as history, the number of games it had matched and
\* of files it wrote.
NoReturn == [ok |-> FALSE, detail |-> "", count |-> 0, matched |-> 0,
             written |-> 0]
NoReport == [written |-> FALSE, total |-> 0, success |-> 0, failed |-> <<>>]

EmptyMap == [x \in {} |-> 0]

NoGame == Game(0, <<>>, <<>>, NoField, NoPgn)
NoScan == [done |-> FALSE, game |-> NoGame, white_api |-> <<>>,
           black_api |-> <<>>, matched |-> FALSE, kept |-> FALSE]
NoCall == [done |-> FALSE, name |-> <<>>, username |-> <<>>, simple |-> <<>>]

NoPairing == [found |-> FALSE, white |-> <<>>, black |-> <<>>,
              white_username |-> <<>>, black_username |-> <<>>]
NoExtract == [done |-> FALSE, number |-> <<>>, left |-> <<>>, sep |-> <<>>,
              right |-> <<>>, line |-> <<>>, result |-> NoPairing]

NoListed == [done |-> FALSE, username |-> <<>>, first |-> TimeoutResp,
             second |-> TimeoutResp, first_result |-> Returned(<<>>, ""),
             second_result |-> Returned(<<>>, "")]

NoSelected == [done |-> FALSE, archives |-> <<>>, scan_order |-> <<>>]

NoPrepared == [dirs |-> {}, clock |-> 1, done |-> FALSE, before |-> {},
               base |-> <<>>, folder |-> <<>>]

NoDialog == [shown |-> FALSE, name |-> <<>>, new_name |-> <<>>,
             new_username |-> <<>>]

\* No archive list selected from, no download directory, no dialog shown.
ToolIdle ==
  /\ selected = NoSelected
  /\ prepared = NoPrepared
  /\ dialog = NoDialog

\* The class tab and the extractor at rest, with no class loaded.
DeskIdle ==
  /\ ToolIdle
  /\ listed = NoListed
  /\ extracted = NoExtract
  /\ classes_data = <<>>
  /\ current_class = <<>>
  /\ last_op = "none"

Put(f, key, value) == [x \in DOMAIN f \cup {key} |-> IF x = key THEN value ELSE f[x]]

\* The state after __init__ and a parse of the pairing text.
Init ==
  /\ parsed_pairings \in SeqsUpTo(PairingUniverse, MaxPairings)
  /\ archive_cache = EmptyMap
  /\ files = EmptyMap
  /\ report = NoReport
  /\ pc = "idle"
  /\ idx = 0
  /\ success = 0
  /\ failed = <<>>
  /\ sync = NoSync
  /\ last_return = NoReturn
  /\ attempted = <<>>
  /\ calls = EmptyMap
  /\ scanned = NoScan
  /\ students = <<>>
  /\ resolved = NoCall
  /\ DeskIdle

\* ------------------------------------------------------------------
\* download_games and download_pairing_games, step by step
\* ------------------------------------------------------------------

\* download_games up to its loop: the guard, the round label, the folder.
StartDownload ==
  /\ pc = "idle"
  /\ parsed_pairings # <<>>
  /\ pc' = "loop"
  /\ idx' = 1
  /\ success' = 0
  /\ failed' = <<>>
  /\ UNCHANGED <<parsed_pairings, archive_cache, files, report, sync,
                 last_return, attempted, calls>>
  /\ UNCHANGED other_vars

\* download_pairing_games returns (ok, detail), with locals s at that point.
Returns(s, ok, detail, count) ==
  /\ last_return' = [ok |-> ok, detail |-> detail, count |-> count,
                     matched |-> Len(s.matched_games),
                     written |-> s.written]
  /\ pc' = "returned"
  /\ sync' = s
  /\ UNCHANGED <<idx, success, failed>>

PairingReturns(ok, detail, count) == Returns(sync, ok, detail, count)

\* A count that takes every returned pairing for a success.
AfterPairing_AlwaysSuccess ==
  /\ pc = "returned"
  /\ success' = success + 1
  /\ failed' = IF last_return.ok THEN failed
               ELSE Append(failed, <<idx, last_return.detail>>)
  /\ idx' = idx + 1
  /\ pc' = "loop"
  /\ sync' = NoSync
  /\ UNCHANGED <<parsed_pairings, archive_cache, files, report, last_return,
                 attempted, calls>>
  /\ UNCHANGED other_vars

\* The end of one pass of the loop of download_games: the result of
\* download_pairing_games is counted.
AfterPairing ==
  /\ pc = "returned"
  /\ success' = IF last_return.ok THEN success + 1 ELSE success
  /\ failed' = IF last_return.ok THEN failed
               ELSE Append(failed, <<idx, last_return.detail>>)
  /\ idx' = idx + 1
  /\ pc' = "loop"
  /\ sync' = NoSync
  /\ UNCHANGED <<parsed_pairings, archive_cache, files, report, last_return,
                 attempted, calls>>
  /\ UNCHANGED other_vars

\* A test that looks at the first name only.
Unresolved_WhiteOnly(pairing) == pairing.white_username = NOT_FOUND

\* if white_user == "未找到" or black_user == "未找到"
Unresolved(pairing) ==
  pairing.white_username = NOT_FOUND \/ pairing.black_username = NOT_FOUND

\* The loop takes up the next pairing: an unresolved name fails it at once;
\* otherwise download_pairing_games starts, and rejects an empty username.
BeginPairing ==
  /\ pc = "loop"
  /\ idx <= Len(parsed_pairings)
  /\ attempted' = Append(attempted, idx)
  /\ LET pairing == parsed_pairings[idx]
         white_api == ApiName(pairing.white_username)
         black_api == ApiName(pairing.black_username)
     IN  IF Unresolved(pairing)
         THEN /\ failed' = Append(failed, <<idx, ERR_UNMATCHED>>)
              /\ idx' = idx + 1
              /\ UNCHANGED <<pc, success, sync, last_return>>
         ELSE IF white_api = <<>> \/ black_api = <<>>
         THEN PairingReturns(FALSE, ERR_INVALID_USERNAME, 0)
         ELSE /\ sync' = [NoSync EXCEPT !.white_api = white_api,
                                        !.black_api = black_api]
              /\ pc' = "white_archives"
              /\ UNCHANGED <<idx, success, failed, last_return>>
  /\ UNCHANGED <<parsed_pairings, archive_cache, files, report, calls>>
  /\ UNCHANGED other_vars

\* The locals once an archive list is in hand: the references to scan.
WithArchives(s, archives) ==
  [s EXCEPT !.archives = archives, !.todo = ConsideredArchives(archives)]

\* A test that never turns to the second list.
NeedsBlackList_Never(archives) == FALSE

\* if not archives: the list of the first participant is empty or failed
NeedsBlackList(archives) == archives = <<>>

\* archives, white_err = self.get_player_archives(white_api)
FetchWhiteArchives ==
  /\ pc = "white_archives"
  /\ \E resp \in ArchiveListResponses(sync.white_api) :
       LET r == get_player_archives(sync.white_api, resp)
       IN  IF r.raised
           THEN /\ pc' = "raised"
                /\ UNCHANGED sync
           ELSE IF NeedsBlackList(r.items)
           THEN /\ pc' = "black_archives"
                /\ sync' = [sync EXCEPT !.white_err = r.err,
                                        !.white_list = r.items,
                                        !.requests = @ + 1]
           ELSE /\ pc' = "scan"
                /\ sync' = WithArchives([sync EXCEPT !.white_err = r.err,
                                                     !.black_err = "",
                                                     !.white_list = r.items,
                                                     !.requests = @ + 1],
                                        r.items)
  /\ UNCHANGED <<parsed_pairings, archive_cache, files, report, idx, success,
                 failed, last_return, attempted, calls>>
  /\ UNCHANGED other_vars

\* archives, black_err = self.get_player_archives(black_api), and the return
\* when this list is empty too.
FetchBlackArchives ==
  /\ pc = "black_archives"
  /\ \E resp \in ArchiveListResponses(sync.black_api) :
       LET r == get_player_archives(sync.black_api, resp)
       IN  IF r.raised
           THEN /\ pc' = "raised"
                /\ UNCHANGED <<sync, idx, success, failed, last_return>>
           ELSE IF r.items = <<>>
           THEN Returns([sync EXCEPT !.black_err = r.err, !.black_asked = TRUE,
                                     !.requests = @ + 1],
                        FALSE,
                        IF sync.white_err # "" THEN sync.white_err
                        ELSE IF r.err # "" THEN r.err
                        ELSE ERR_NO_ARCHIVES, 0)
           ELSE /\ pc' = "scan"
                /\ sync' = WithArchives([sync EXCEPT !.black_err = r.err,
                                                     !.black_asked = TRUE,
                                                     !.black_list = r.items,
                                                     !.requests = @ + 1],
                                        r.items)
                /\ UNCHANGED <<idx, success, failed, last_return>>
  /\ UNCHANGED <<parsed_pairings, archive_cache, files, report, attempted, calls>>
  /\ UNCHANGED other_vars

\* One pass of the scan loop: the last reference not yet scanned is fetched,
\* and its games that match are appended.
ScanArchive ==
  /\ pc = "scan"
  /\ sync.todo # <<>>
  /\ LET archive_url == sync.todo[Len(sync.todo)]
         rest == SubSeq(sync.todo, 1, Len(sync.todo) - 1)
         sent == ArchiveRequestSent(archive_url, archive_cache)
     IN  \E resp \in IF sent THEN ArchiveResponses(archive_url) ELSE {TimeoutResp} :
           LET r == get_archive_games(archive_url, archive_cache, resp)
               call == [sent |-> sent, raised |-> r.raised, games |-> r.items,
                        ok |-> ~r.raised /\ r.err = ""]
           IN  /\ calls' = Put(calls, archive_url,
                             IF archive_url \in DOMAIN calls
                             THEN Append(calls[archive_url], call) ELSE <<call>>)
               /\ IF r.raised
                  THEN /\ pc' = "raised"
                       /\ UNCHANGED <<sync, archive_cache>>
                  ELSE /\ archive_cache' = CacheAfter(archive_url, archive_cache, resp)
                       /\ pc' = "scan"
                       /\ sync' =
                            IF r.err # ""
                            THEN [sync EXCEPT !.last_error = r.err, !.todo = rest,
                                              !.requests = @ + 1]
                            ELSE [sync EXCEPT
                                    !.todo = rest,
                                    !.requests = IF sent THEN @ + 1 ELSE @,
                                    !.matched_games =
                                       @ \o MatchedOf(r.items, sync.white_api,
                                                      sync.black_api, Cutoff(Now))]
  /\ UNCHANGED <<parsed_pairings, files, report, idx, success, failed,
                 last_return, attempted>>
  /\ UNCHANGED other_vars

\* A choice of reason that puts an error of the list requests first.
NoMatchReason_ListErrorFirst(s) ==
  IF s.white_err # "" THEN s.white_err
  ELSE IF s.black_err # "" THEN s.black_err
  ELSE IF s.last_error # "" THEN s.last_error
  ELSE ERR_NO_RECENT_GAMES

\* The reason returned when the scan matched no game.
NoMatchReason(s) ==
  IF s.white_err # "" /\ s.archives = <<>> THEN s.white_err
  ELSE IF s.black_err # "" /\ s.archives = <<>> THEN s.black_err
  ELSE IF s.last_error # "" THEN s.last_error
  ELSE ERR_NO_RECENT_GAMES

\* After the scan loop: the return when nothing matched, else the write loop.
EndScan ==
  /\ pc = "scan"
  /\ sync.todo = <<>>
  /\ IF sync.matched_games = <<>>
     THEN PairingReturns(FALSE, NoMatchReason(sync), 0)
     ELSE /\ pc' = "write"
          /\ sync' = [sync EXCEPT !.widx = 1, !.saved_any = FALSE]
          /\ UNCHANGED <<idx, success, failed, last_return>>
  /\ UNCHANGED <<parsed_pairings, archive_cache, files, report, attempted, calls>>
  /\ UNCHANGED other_vars

\* One pass of the write loop: a game without PGN text is skipped; the file
\* is written, or the write fails with OSError and the loop goes on.
WriteGame ==
  /\ pc = "write"
  /\ sync.widx <= Len(sync.matched_games)
  /\ LET game == sync.matched_games[sync.widx]
         pairing == parsed_pairings[idx]
         filename == FileName(pairing.white, pairing.black, game, sync.widx, Now)
     IN  IF game.pgn = NoPgn
         THEN /\ sync' = [sync EXCEPT !.widx = @ + 1]
              /\ UNCHANGED files
         ELSE \E written \in BOOLEAN :
                IF written
                THEN /\ files' = Put(files, filename, game.pgn)
                     /\ sync' = [sync EXCEPT !.widx = @ + 1, !.saved_any = TRUE,
                                             !.written = @ + 1]
                ELSE /\ sync' = [sync EXCEPT !.widx = @ + 1]
                     /\ UNCHANGED files
  /\ UNCHANGED <<parsed_pairings, archive_cache, report, pc, idx, success,
                 failed, last_return, attempted, calls>>
  /\ UNCHANGED other_vars

\* A test that takes every matched game for a saved one.
ReportsSuccess_AnyMatch(s) == s.matched_games # <<>>

\* if not saved_any: return False, ...; return True, ...
ReportsSuccess(s) == s.saved_any

\* The number in the message f"保存 {len(matched_games)} 局"
SavedCount(s) == Len(s.matched_games)

\* After the write loop: the return of download_pairing_games.
EndWrite ==
  /\ pc = "write"
  /\ sync.widx > Len(sync.matched_games)
  /\ IF ReportsSuccess(sync)
     THEN PairingReturns(TRUE, "saved", SavedCount(sync))
     ELSE PairingReturns(FALSE, ERR_SAVE_FAILED, 0)
  /\ UNCHANGED <<parsed_pairings, archive_cache, files, report, attempted, calls>>
  /\ UNCHANGED other_vars

\* After the loop of download_games: the report file is written.
WriteReport ==
  /\ pc = "loop"
  /\ idx > Len(parsed_pairings)
  /\ report' = [written |-> TRUE, total |-> Len(parsed_pairings),
                success |-> success, failed |-> failed]
  /\ pc' = "done"
  /\ UNCHANGED <<parsed_pairings, archive_cache, files, idx, success, failed,
                 sync, last_return, attempted, calls>>
  /\ UNCHANGED other_vars

Next ==
  \/ StartDownload
  \/ BeginPairing
  \/ AfterPairing
  \/ FetchWhiteArchives
  \/ FetchBlackArchives
  \/ ScanArchive
  \/ EndScan
  \/ WriteGame
  \/ EndWrite
  \/ WriteReport

Spec == Init /\ [][Next]_vars

\* ------------------------------------------------------------------
\* Properties of the download batch
\* ------------------------------------------------------------------

\* download_games has ended: it returned, or an exception left it.
BatchEnded == pc \in {"done", "raised"}

\* <<1, ..., n>>
UpTo(n) == [i \in 1..n |-> i]

\* C1: every pairing of the parsed list is attempted exactly once, in input
\* order, whatever the outcome of the pairings before it: the loop has taken
\* up the indexes 1, 2, ... in order, and all of them when the batch has ended.
C1_EveryPairingAttempted ==
  /\ attempted = UpTo(Len(attempted))
  /\ BatchEnded => attempted = UpTo(Len(parsed_pairings))

\* C2: a batch that has started writes its report, even when every pairing
\* failed: when download_games has ended, the report file is written.
C2_ReportWritten == BatchEnded => report.written

\* C3: get_player_archives and get_archive_games return a (result, reason)
\* pair for every outcome of the request: no exception leaves them.
C3_ClientNeverRaises == pc # "raised"

\* The calls i < j of get_archive_games on one reference.
CallPairs ==
  {<<u, i, j>> \in (DOMAIN calls) \X (1..(MaxPairings + 1)) \X (1..(MaxPairings + 1)) :
     i < j /\ j <= Len(calls[u])}

\* C4 as claimed: any two calls on one reference send at most one request in
\* total, and the second returns the games of the first.
C4_TwoCallsOneRequest ==
  \A p \in CallPairs :
    LET first == calls[p[1]][p[2]]
        second == calls[p[1]][p[3]]
    IN  /\ ~(first.sent /\ second.sent)
        /\ second.games = first.games

\* C4 as amended: once a call on a reference has succeeded, every later call
\* on it sends no request, succeeds and returns the same games.
C4_SecondCallAfterSuccess ==
  \A p \in CallPairs :
    LET first == calls[p[1]][p[2]]
        second == calls[p[1]][p[3]]
    IN  first.ok => ~second.sent /\ second.ok /\ second.games = first.games

\* A reference was fetched with success and then asked for again.
C4_Witness ==
  \E p \in CallPairs : calls[p[1]][p[2]].ok /\ calls[p[1]][p[2]].games # <<>>

\* C5: a call of get_archive_games on a reference that is in the cache sends
\* no request and returns the cached games with an empty failure reason.
C5_CacheHitNoRequest ==
  [][\A u \in DOMAIN archive_cache :
       (u \in DOMAIN calls' /\ calls'[u] # (IF u \in DOMAIN calls THEN calls[u] ELSE <<>>))
         => LET call == calls'[u][Len(calls'[u])]
            IN  ~call.sent /\ call.ok /\ call.games = archive_cache[u]]_vars

\* A call was answered from the cache, with games.
C5_Witness ==
  \E u \in DOMAIN calls : \E i \in DOMAIN calls[u] :
    ~calls[u][i].sent /\ calls[u][i].games # <<>>

\* C6: no saved PGN file is ever overwritten with the text of another game.
C6_NoOverwriteWithOtherGame ==
  [][\A f \in DOMAIN files : files'[f] = files[f]]_vars

\* ------------------------------------------------------------------
\* The game filter of the scan loop, one game at a time
\* ------------------------------------------------------------------

\* The download engine at rest with nothing parsed.
EngineIdle ==
  /\ parsed_pairings = <<>>
  /\ archive_cache = EmptyMap
  /\ files = EmptyMap
  /\ report = NoReport
  /\ pc = "idle"
  /\ idx = 0
  /\ success = 0
  /\ failed = <<>>
  /\ sync = NoSync
  /\ last_return = NoReturn
  /\ attempted = <<>>
  /\ calls = EmptyMap

\* Player names as the service reports them, in mixed case.
GamePlayers == {AL, <<"A", "L">>, BO, CU}

\* The api names a pairing can carry (lower-cased by download_pairing_games).
ApiNames == {ApiName(AL), ApiName(BO), ApiName(CU)}

\* Values of a game's end_time entry around the cutoff.
EndTimes ==
  {NoField, OtherField, NumField(0), StrField(Unparseable),
   NumField(Cutoff(Now) - SecondsPerDay), NumField(Cutoff(Now) - 1),
   NumField(Cutoff(Now)), NumField(Cutoff(Now) + 1), NumField(Now),
   StrField(Cutoff(Now)), StrField(Cutoff(Now) - SecondsPerDay)}

\* Values of a game's start_time entry, read when end_time is not truthy.
StartTimes == {NoField, NumField(Cutoff(Now) - SecondsPerDay)}

GameUniverse ==
  {[Game(7, w, b, e, "g7") EXCEPT !.start_time = st] :
     w \in GamePlayers, b \in GamePlayers, e \in EndTimes, st \in StartTimes}

\* The scan loop about to test a game of a fetched archive for a pairing.
InitMatch ==
  /\ EngineIdle
  /\ \E game \in GameUniverse, white_api \in ApiNames, black_api \in ApiNames :
       scanned = [NoScan EXCEPT !.game = game, !.white_api = white_api,
                                !.black_api = black_api]
  /\ students = <<>>
  /\ resolved = NoCall
  /\ DeskIdle

\* One pass of the inner scan loop (teacher_gui.py 782-790) over the game.
ScanGame ==
  /\ ~scanned.done
  /\ LET cutoff == Cutoff(Now)
         white_api == scanned.white_api
         black_api == scanned.black_api
         matched_games ==
           MatchedOf(<<scanned.game>>, white_api, black_api, cutoff)
     IN  scanned' =
           [scanned EXCEPT
              !.done = TRUE,
              !.matched = ParticipantsMatch(scanned.game, white_api, black_api),
              !.kept = (matched_games = <<scanned.game>>)]
  /\ UNCHANGED <<download_vars, students, resolved, desk_vars>>

NextMatch == ScanGame

SpecMatch == InitMatch /\ [][NextMatch]_vars

\* C7: a scanned game passes the participants test exactly when its two
\* players, lower-cased, are the pairing's two api names in either colour
\* order; swapping the colours of the game or of the pairing never changes
\* the outcome, and a game is kept only if it passes.
C7_MatchIsColourBlind ==
  scanned.done =>
    LET g == scanned.game
        a == scanned.white_api
        b == scanned.black_api
        gw == Lower(g.white)
        gb == Lower(g.black)
        swapped == [g EXCEPT !.white = g.black, !.black = g.white]
    IN  /\ scanned.matched <=> ((gw = a /\ gb = b) \/ (gw = b /\ gb = a))
        /\ scanned.kept => scanned.matched
        /\ scanned.kept = KeepGame(swapped, a, b, Cutoff(Now))
        /\ scanned.kept = KeepGame(g, b, a, Cutoff(Now))

\* A game the pairing's black player played as white is kept.
C7_Witness ==
  /\ scanned.done
  /\ scanned.white_api # scanned.black_api
  /\ Lower(scanned.game.white) = scanned.black_api
  /\ Lower(scanned.game.black) = scanned.white_api
  /\ scanned.kept

\* C8: of the games between the two players whose end_time is a number, the
\* one ending exactly at now - recent_days is kept and the one ending a day
\* before that is dropped.
C8_BoundaryKept ==
  (scanned.done /\ scanned.matched) =>
    /\ scanned.game.end_time = NumField(Now - recent_days * SecondsPerDay)
         => scanned.kept
    /\ scanned.game.end_time = NumField(Now - (recent_days + 1) * SecondsPerDay)
         => ~scanned.kept

\* A game between the two players that ended exactly at the cutoff is kept.
C8_Witness ==
  /\ scanned.done
  /\ scanned.matched
  /\ scanned.game.end_time = NumField(Now - recent_days * SecondsPerDay)
  /\ scanned.kept

\* ------------------------------------------------------------------
\* Name resolution against the roster
\* ------------------------------------------------------------------

\* One roster entry; students is the sequence of entries in dict order.
Student(name, username) == [name |-> name, username |-> username]

\* The indexes of the entries whose real_name passes the test of a tier of
\* TeacherChessApp.find_username, for the stripped argument.
TierMatches(tier, name, real_name) ==
  LET lower == Lower(name)
      real_lower == Lower(real_name)
      parts == Split(lower)
      first == IF parts # <<>> THEN parts[1] ELSE lower
      real_split == Split(real_name)
      real_first == IF real_split # <<>> THEN Split(real_lower)[1] ELSE real_lower
      filtered == {parts[i] : i \in {j \in DOMAIN parts : Len(parts[j]) > 1}}
      real_parts ==
        {Lower(real_split[i]) :
           i \in {j \in DOMAIN real_split : Len(real_split[j]) > 1}}
      clean == StripNonWord(lower)
  IN  CASE tier = 1 -> real_name = name
        [] tier = 2 -> real_lower = lower
        [] tier = 3 -> Contains(lower, real_lower)
        [] tier = 4 -> Contains(real_lower, lower)
        [] tier = 5 -> first = real_first /\ Len(first) > 1
        [] tier = 6 -> filtered \cap real_parts # {}
        [] tier = 7 -> clean # <<>> /\ clean = StripNonWord(real_lower)

Hits(tier, name, roster) ==
  {i \in DOMAIN roster : TierMatches(tier, name, roster[i].name)}

\* Orders of the tiers that test containment, or the cleaned text, too early.
TierOrder_ContainmentFirst == <<3, 1, 2, 4, 5, 6, 7>>
TierOrder_CleanedFirst == <<1, 2, 7, 4, 5, 6, 3>>

\* The order in which find_username runs its lookups and loops.
TierOrder == <<1, 2, 3, 4, 5, 6, 7>>

RECURSIVE TryTiers(_, _, _)
TryTiers(order, name, roster) ==
  IF order = <<>> THEN NOT_FOUND
  ELSE LET hits == Hits(Head(order), name, roster)
       IN  IF hits # {} THEN roster[Min(hits)].username
           ELSE TryTiers(Tail(order), name, roster)

\* A resolver that runs the tiers on the empty argument too.
find_username_NoGuard(name, roster) == TryTiers(TierOrder, Strip(name), roster)

\* TeacherChessApp.find_username
find_username(name, roster) ==
  IF name = <<>> THEN NOT_FOUND
  ELSE TryTiers(TierOrder, Strip(name), roster)

\* The seventh loop of ChessToolTabs.find_username: equality of the cleaned
\* texts, or containment either way with lengths at most two apart.
SimpleCleanMatches(name, real_name) ==
  LET clean_name == StripNonWord(Lower(name))
      clean_real == StripNonWord(Lower(real_name))
      diff == Len(clean_name) - Len(clean_real)
  IN  \/ clean_name = clean_real
      \/ /\ Contains(clean_name, clean_real) \/ Contains(clean_real, clean_name)
         /\ diff <= 2 /\ 0 - diff <= 2

SimpleHits(tier, name, roster) ==
  IF tier = 7
  THEN {i \in DOMAIN roster : SimpleCleanMatches(name, roster[i].name)}
  ELSE Hits(tier, name, roster)

RECURSIVE SimpleTryTiers(_, _, _)
SimpleTryTiers(order, name, roster) ==
  IF order = <<>> THEN NOT_FOUND
  ELSE LET hits == SimpleHits(Head(order), name, roster)
       IN  IF hits # {} THEN roster[Min(hits)].username
           ELSE SimpleTryTiers(Tail(order), name, roster)

\* ChessToolTabs.find_username
simple_find_username(name, roster) ==
  IF name = <<>> \/ roster = <<>> THEN NOT_FOUND
  ELSE SimpleTryTiers(TierOrder, Strip(name), roster)

\* Roster names.  TeacherChessApp stores names stripped and not empty; the
\* roster file is shared with ChessToolTabs, whose parse_students_list keeps
\* the empty name of a line such as "->bob", and load_data takes the names of
\* the file as they are.
MaxStudents == 2

CleanNames ==
  {<<"A", "b">>, <<"a", "b">>, <<"a", "b", " ", "c", "d">>,
   <<"c", "d", " ", "a", "b">>, <<"a", "-", "b">>, <<"x", "a", "-", "b">>,
   <<"a">>}

DirtyNames == {<<>>, <<" ", "a", "b">>}

RosterNames == CleanNames \cup DirtyNames

\* Each name's account, different for different names.
UsernameOf(name) == <<"u", "_">> \o name

Rosters ==
  {roster \in SeqsUpTo({Student(n, UsernameOf(n)) : n \in RosterNames},
                       MaxStudents) :
     \A i, j \in DOMAIN roster : roster[i].name = roster[j].name => i = j}

\* Arguments of find_username: roster names and near misses of them.
Tokens ==
  RosterNames \cup
  {<<" ">>, <<"A", "B">>, <<"c", "d">>, <<"a", "b", " ", "x", "a">>,
   <<"x", "a", " ", "c", "d">>, <<"a", " ", "b">>, <<"b">>,
   <<"a", "b", " ">>, <<"z">>, <<"x", "a", "b">>}

\* The roster as loaded, and the argument a caller is about to pass.
InitResolve ==
  /\ EngineIdle
  /\ scanned = NoScan
  /\ students \in Rosters
  /\ \E name \in Tokens : resolved = [NoCall EXCEPT !.name = name]
  /\ DeskIdle

\* A call of find_username, in both programs.
Resolve ==
  /\ ~resolved.done
  /\ resolved' = [resolved EXCEPT
                    !.done = TRUE,
                    !.username = find_username(resolved.name, students),
                    !.simple = simple_find_username(resolved.name, students)]
  /\ UNCHANGED <<download_vars, scanned, students, desk_vars>>

NextResolve == Resolve

SpecResolve == InitResolve /\ [][NextResolve]_vars

\* C9 as stated: the name of any roster entry resolves to that entry's
\* username, in both programs.
C9_EveryEntryResolves ==
  resolved.done =>
    \A i \in DOMAIN students :
      resolved.name = students[i].name =>
        /\ resolved.username = students[i].username
        /\ resolved.simple = students[i].username

\* C9: the name of a roster entry that is not empty and has no whitespace at
\* either end resolves to that entry's username, in both programs.
C9_CleanEntryResolves ==
  resolved.done =>
    \A i \in DOMAIN students :
      (/\ resolved.name = students[i].name
       /\ resolved.name # <<>>
       /\ resolved.name[1] \notin SpaceChars
       /\ resolved.name[Len(resolved.name)] \notin SpaceChars) =>
        /\ resolved.username = students[i].username
        /\ resolved.simple = students[i].username

\* A clean name was looked up in a roster where an earlier entry contains it.
C9_Witness ==
  /\ resolved.done
  /\ Len(students) = 2
  /\ resolved.name = students[2].name
  /\ resolved.name \in CleanNames
  /\ Contains(Lower(resolved.name), Lower(students[1].name))
  /\ resolved.username = students[2].username

\* The least tier at which some entry of the roster matches, 0 if none does.
LeastTier(name, roster) ==
  IF \E t \in 1..7 : Hits(t, name, roster) # {}
  THEN Min({t \in 1..7 : Hits(t, name, roster) # {}})
  ELSE 0

\* C10: TeacherChessApp.find_username of a non-empty argument returns the
\* username of an entry matching at the least tier at which any entry
\* matches; an entry matching only at a later tier never wins.
C10_FirstTierWins ==
  (resolved.done /\ resolved.name # <<>>) =>
    LET name == Strip(resolved.name)
        tier == LeastTier(name, students)
    IN  tier # 0 =>
          \E i \in DOMAIN students :
            /\ TierMatches(tier, name, students[i].name)
            /\ resolved.username = students[i].username

\* The first entry matches at tier 7 only, the second at tier 3, and the
\* second entry is the result.
C10_Witness ==
  /\ resolved.done
  /\ Len(students) = 2
  /\ LeastTier(Strip(resolved.name), students) = 3
  /\ Hits(3, Strip(resolved.name), students) = {2}
  /\ 1 \in Hits(7, Strip(resolved.name), students)
  /\ \A t \in 1..6 : 1 \notin Hits(t, Strip(resolved.name), students)
  /\ resolved.username = students[2].username

\* C11: find_username of the empty argument returns the not-found value for
\* any roster, and find_username of any argument returns it for the empty
\* roster, in both programs.
C11_EmptyInputsNotFound ==
  (resolved.done /\ (resolved.name = <<>> \/ students = <<>>)) =>
    /\ resolved.username = NOT_FOUND
    /\ resolved.simple = NOT_FOUND

\* The empty argument was looked up in a roster that holds an entry with the
\* empty name, and was not found.
C11_Witness ==
  /\ resolved.done
  /\ resolved.name = <<>>
  /\ \E i \in DOMAIN students : students[i].name = <<>>
  /\ resolved.username = NOT_FOUND

\* ------------------------------------------------------------------
\* The pairing extractor
\* ------------------------------------------------------------------

RECURSIVE DropWhile(_, _)
DropWhile(s, chars) ==
  IF s # <<>> /\ Head(s) \in chars THEN DropWhile(Tail(s), chars) ELSE s

\* The characters that may follow a list number: . 、 : ： ) - – — and space.
MarkerChars ==
  {".", "U3001", ":", "UFF1A", ")", "-", "U2013", "U2014"} \cup SpaceChars

\* re.sub(r"^\s*\d+[\.、:：\)\-–—\s]*", "", line)
StripListNumber(line) ==
  LET unspaced == DropWhile(line, SpaceChars)
      undigited == DropWhile(unspaced, DigitChars)
  IN  IF undigited = unspaced THEN line ELSE DropWhile(undigited, MarkerChars)

\* The line parse_pairings_content hands to the extractor, <<>> if it drops it.
NormalizeLine(raw) == Strip(StripListNumber(Strip(raw)))

\* A digit test that never rejects.
isdigit_Never(s) == FALSE

\* str.isdigit()
isdigit(s) == s # <<>> /\ \A i \in DOMAIN s : s[i] \in DigitChars

\* The first position from i on that holds no whitespace / holds whitespace,
\* one past the end if there is none.
NextNonSpace(line, i) ==
  Min({j \in i..Len(line) : line[j] \notin SpaceChars} \cup {Len(line) + 1})
NextSpace(line, i) ==
  Min({j \in i..Len(line) : line[j] \in SpaceChars} \cup {Len(line) + 1})

\* The characters the separator of a pattern accepts between the two names:
\* the class [vs对战VS] read without case, the hyphen, 对, and the two colons.
SeparatorChars(k) ==
  CASE k = 1 -> {"v", "s", "V", "S", "U5BF9", "U6218"}
    [] k = 2 -> {"-"}
    [] k = 3 -> {"U5BF9"}
    [] k = 4 -> {":", "UFF1A"}

\* Where group 2 starts when the separator of pattern k (1 to 4) matches from
\* position i of a stripped line, 0 when it does not match there.  Patterns
\* 1 to 3 want whitespace on both sides of the one separator character,
\* pattern 4 allows none.
GroupTwoStart(k, line, i) ==
  LET j == NextNonSpace(line, i)
  IN  IF /\ (k = 4 \/ line[i] \in SpaceChars)
         /\ j <= Len(line)
         /\ line[j] \in SeparatorChars(k)
         /\ (k = 4 \/ (j + 1 <= Len(line) /\ line[j + 1] \in SpaceChars))
         /\ NextNonSpace(line, j + 1) <= Len(line)
      THEN NextNonSpace(line, j + 1)
      ELSE 0

NoMatch == [matched |-> FALSE, white |-> <<>>, black |-> <<>>]
Groups(group1, group2) ==
  [matched |-> TRUE, white |-> Strip(group1), black |-> Strip(group2)]

\* re.search of one of the patterns 1 to 4: group 1 is the shortest prefix
\* after which the separator matches, group 2 runs to the next whitespace.
SeparatorSplit(k, line) ==
  LET starts == {i \in 2..Len(line) : GroupTwoStart(k, line, i) # 0}
  IN  IF starts = {} THEN NoMatch
      ELSE LET i == Min(starts)
               e == GroupTwoStart(k, line, i)
           IN  Groups(SubSeq(line, 1, i - 1),
                      SubSeq(line, e, NextSpace(line, e) - 1))

\* A fallback that cuts at the last whitespace run.
FallbackSplit_Last(line) ==
  LET words == Split(line)
      last == words[Len(words)]
  IN  IF Len(words) < 2 THEN NoMatch
      ELSE Groups(SubSeq(line, 1, Len(line) - Len(last)), last)

\* re.search of pattern 5, ^(.+?)\s+(.+?)$: group 1 ends before the first
\* whitespace, group 2 is all that follows the whitespace run.
FallbackSplit(line) ==
  LET i == NextSpace(line, 2)
      e == NextNonSpace(line, i)
  IN  IF e > Len(line) THEN NoMatch
      ELSE Groups(SubSeq(line, 1, i - 1), SubSeq(line, e, Len(line)))

MatchPattern(k, line) ==
  IF k = 5 THEN FallbackSplit(line) ELSE SeparatorSplit(k, line)

\* The order of the list patterns.
Patterns == <<1, 2, 3, 4, 5>>

RECURSIVE TryPatterns(_, _, _)
TryPatterns(patterns, line, roster) ==
  IF patterns = <<>> THEN NoPairing
  ELSE LET m == MatchPattern(Head(patterns), line)
       IN  IF /\ m.matched
              /\ m.white # <<>> /\ m.black # <<>>
              /\ ~isdigit(m.white) /\ ~isdigit(m.black)
           THEN [found |-> TRUE, white |-> m.white, black |-> m.black,
                 white_username |-> find_username(m.white, roster),
                 black_username |-> find_username(m.black, roster)]
           ELSE TryPatterns(Tail(patterns), line, roster)

\* TeacherChessApp._extract_pairing, on a stripped line that is not empty
extract_pairing(line, roster) == TryPatterns(Patterns, line, roster)

\* The body of the loop of parse_pairings_content for one raw line.
ExtractRaw(raw, roster) ==
  LET line == NormalizeLine(raw)
  IN  IF line = <<>> THEN NoPairing ELSE extract_pairing(line, roster)

\* Pasted pairing lines: an optional list number, the left name, what stands
\* between the names, the right name.
ListNumbers == {<<>>, <<"1", ".", " ">>, <<"2", ")">>}
LeftTexts == {AL, AL \o <<" ">> \o BO}
RightTexts == {CU, CU \o <<" ">> \o DU, <<"7">>}
VersusSeparators ==
  {<<" ", "v", "s", " ">>, <<" ", "V", "S", " ">>, <<" ", "U5BF9", "U6218", " ">>}
Separators ==
  VersusSeparators \cup
  {<<" ", "v", " ">>, <<" ", "S", " ">>, <<" ", "-", " ">>,
   <<" ", "U5BF9", " ">>, <<":">>, <<" ", "UFF1A", " ">>, <<" ">>, <<" ", " ">>}

InitExtract ==
  /\ EngineIdle
  /\ scanned = NoScan
  /\ students = <<>>
  /\ resolved = NoCall
  /\ classes_data = <<>>
  /\ current_class = <<>>
  /\ last_op = "none"
  /\ listed = NoListed
  /\ ToolIdle
  /\ \E number \in ListNumbers, left \in LeftTexts, sep \in Separators,
        right \in RightTexts :
       extracted = [NoExtract EXCEPT !.number = number, !.left = left,
                                     !.sep = sep, !.right = right,
                                     !.line = number \o left \o sep \o right]

\* One pass of the loop of parse_pairings_content over the line.
ExtractLine ==
  /\ ~extracted.done
  /\ extracted' = [extracted EXCEPT !.done = TRUE,
                                    !.result = ExtractRaw(extracted.line, students)]
  /\ UNCHANGED <<download_vars, scanned, students, resolved, classes_data,
                 current_class, last_op, listed, tool_vars>>

NextExtract == ExtractLine

SpecExtract == InitExtract /\ [][NextExtract]_vars

\* C12: a line '<left> vs <right>' with the marker vs, VS or 对战 between
\* whitespace, with or without a list number, is extracted as (left, right);
\* lines whose right side is a number are left aside.
C12_VersusLineSplits ==
  (extracted.done /\ extracted.sep \in VersusSeparators
                  /\ ~isdigit(extracted.right)) =>
    /\ extracted.result.found
    /\ extracted.result.white = extracted.left
    /\ extracted.result.black = extracted.right

\* The words of the normalized line.
LineWords == Split(NormalizeLine(extracted.line))

\* The line holds one of the separators as the text names them: a word vs,
\* VS, 对战 or 对, a hyphen between whitespace, or a colon.
NamedSeparator ==
  LET line == NormalizeLine(extracted.line)
  IN  \/ \E i \in DOMAIN LineWords :
           LineWords[i] \in {<<"v", "s">>, <<"V", "S">>, <<"U5BF9", "U6218">>,
                             <<"U5BF9">>, <<"-">>}
      \/ \E i \in DOMAIN line : line[i] \in {":", "UFF1A"}

PatternSeparator ==
  LET line == NormalizeLine(extracted.line)
  IN  \/ \E i \in DOMAIN LineWords :
           Len(LineWords[i]) = 1 /\
           LineWords[i][1] \in {"v", "s", "V", "S", "U5BF9", "U6218", "-"}
      \/ \E i \in DOMAIN line : line[i] \in {":", "UFF1A"}

C14_SuccessNeedsWrittenFile ==
  /\ last_return.ok => last_return.written >= 1
  /\ (last_return.matched > 0 /\ last_return.written = 0) =>
       (~last_return.ok /\ last_return.detail = ERR_SAVE_FAILED)

\* A call matched games, wrote no file, and reported the failure to save.
C14_Witness ==
  /\ last_return.matched > 0
  /\ last_return.written = 0
  /\ last_return.detail = ERR_SAVE_FAILED

\* C15: the number of saved games a successful download_pairing_games reports
\* is the number of files it wrote; matched games without PGN text are not
\* counted.
C15_ReportedCountIsWritten ==
  last_return.ok => last_return.count = last_return.written

\* ------------------------------------------------------------------
\* The reasons of the archive-list request
\* ------------------------------------------------------------------

\* What the two requests can deliver.
ListCallResponses ==
  TransportFailures \cup MalformedBodies
    \cup {StalledBodyResp, StatusResp(502), OkResp("list", <<>>),
          OkResp("list", ServerArchives(ApiName(AL)))}

InitList ==
  /\ EngineIdle
  /\ scanned = NoScan
  /\ students = <<>>
  /\ resolved = NoCall
  /\ extracted = NoExtract
  /\ classes_data = <<>>
  /\ current_class = <<>>
  /\ last_op = "none"
  /\ ToolIdle
  /\ \E username \in {<<>>, ApiName(AL)},
        first \in ListCallResponses, second \in ListCallResponses :
       listed = [NoListed EXCEPT !.username = username, !.first = first,
                                 !.second = second]

\* Two calls of get_player_archives, each with its own response.
ListArchives ==
  /\ ~listed.done
  /\ listed' = [listed EXCEPT
                  !.done = TRUE,
                  !.first_result = get_player_archives(listed.username, listed.first),
                  !.second_result = get_player_archives(listed.username, listed.second)]
  /\ UNCHANGED <<download_vars, scanned, students, resolved, extracted,
                 classes_data, current_class, last_op, tool_vars>>

NextList == ListArchives

SpecList == InitList /\ [][NextList]_vars

\* C16: for the archive-list request a timeout gives a reason that no other
\* transport error gives, and the outcomes 404, 403 and any other status
\* other than 200 each give a reason of their own.
C16_ListReasonsTyped ==
  (listed.done /\ listed.username # <<>>) =>
    /\ (listed.first.k = "timeout" /\ listed.second.k = "connerr") =>
         listed.first_result.err # listed.second_result.err
    /\ (/\ listed.first.k = "http" /\ listed.second.k = "http"
        /\ listed.first.status # 200 /\ listed.second.status # 200
        /\ listed.first.status # listed.second.status) =>
         /\ listed.first_result.err # ""
         /\ listed.second_result.err # ""
         /\ listed.first_result.err # listed.second_result.err

\* ------------------------------------------------------------------
\* Classes, rosters and the parsed pairing list
\* ------------------------------------------------------------------

\* A dict as the sequence of its entries in insertion order; the key of an
\* entry is its name.
Keys(dict) == {dict[i].name : i \in DOMAIN dict}
IndexOf(dict, name) == CHOOSE i \in DOMAIN dict : dict[i].name = name

\* A pop that removes nothing.
DictPop_Keep(dict, name) == dict

\* dict.pop(name, None)
DictPop(dict, name) == SelectSeq(dict, LAMBDA e : e.name # name)

\* dict[name] = value for a dict of students: a known name keeps its place.
SetStudent(roster, name, username) ==
  IF name \in Keys(roster)
  THEN [roster EXCEPT ![IndexOf(roster, name)].username = username]
  ELSE Append(roster, Student(name, username))

RECURSIVE UpdateStudents(_, _)
\* dict.update(parsed)
UpdateStudents(roster, parsed) ==
  IF parsed = <<>> THEN roster
  ELSE UpdateStudents(SetStudent(roster, Head(parsed).name, Head(parsed).username),
                      Tail(parsed))

\* next(iter(self.classes_data), "")
FirstClass(classes) == IF classes = <<>> THEN <<>> ELSE classes[1].name

ClassInfo(name, roster) == [name |-> name, students |-> roster]

\* A refresh that takes the students of the first class.
refresh_students_ref_First(classes, class) ==
  IF classes = <<>> THEN <<>> ELSE classes[1].students

\* _refresh_students_ref: the students dict of the current class, or {}
refresh_students_ref(classes, class) ==
  IF class # <<>> /\ class \in Keys(classes)
  THEN classes[IndexOf(classes, class)].students
  ELSE <<>>

\* self.students is the dict object held by the current class, so a change
\* made through self.students shows in self.classes_data.
WriteThrough(classes, class, roster) ==
  IF class # <<>> /\ class \in Keys(classes)
  THEN [classes EXCEPT ![IndexOf(classes, class)].students = roster]
  ELSE classes

\* classes.json as load_data finds it: missing or unreadable, holding a
\* "classes" entry, an older file that is the class dict itself, or another
\* JSON value.
DataFile(kind, classes, class) ==
  [kind |-> kind, classes |-> classes, current_class |-> class]

\* self.classes_data and self.current_class after load_data
load_data(file) ==
  LET classes == IF file.kind \in {"new", "legacy"} THEN file.classes ELSE <<>>
      named == IF file.kind = "new" THEN file.current_class
               ELSE IF file.kind = "legacy" THEN FirstClass(classes)
               ELSE <<>>
      class == IF named \in Keys(classes) THEN named ELSE FirstClass(classes)
  IN  [classes_data |-> classes, current_class |-> class]

\* A parser result that follows the roster: usernames looked up anew.
KeptPairings_Reresolved(pairings, roster) ==
  [i \in DOMAIN pairings |->
     Pairing(pairings[i].white, pairings[i].black,
             find_username(pairings[i].white, roster),
             find_username(pairings[i].black, roster))]

\* self.parsed_pairings after a handler of the class tab: none of them
\* assigns it.
KeptPairings(pairings, roster) == pairings

RECURSIVE parse_pairings_content(_, _)
\* parse_pairings_content, on the lines of the content
parse_pairings_content(content, roster) ==
  IF content = <<>> THEN <<>>
  ELSE LET p == ExtractRaw(Head(content), roster)
           rest == parse_pairings_content(Tail(content), roster)
       IN  IF p.found
           THEN <<Pairing(p.white, p.black, p.white_username, p.black_username)>>
                  \o rest
           ELSE rest

\* Class names, student names and usernames of the session.
ClassNames == {<<"c", "1">>, <<"c", "2">>}
StudentNames == {<<"a", "b">>, <<"c", "d">>}
Usernames == {AL, BO}

\* Rosters a file can hold, and the class dicts made of them.
FileRosters ==
  {<<>>, <<Student(<<"a", "b">>, AL)>>,
   <<Student(<<"c", "d">>, BO), Student(<<"a", "b">>, BO)>>}

FileClasses ==
  {<<>>}
    \cup {<<ClassInfo(c, r)>> : c \in ClassNames, r \in FileRosters}
    \cup {<<ClassInfo(cd[1], r), ClassInfo(cd[2], q)>> :
            cd \in {x \in ClassNames \X ClassNames : x[1] # x[2]},
            r \in FileRosters, q \in FileRosters}

DataFiles ==
  {DataFile("missing", <<>>, <<>>), DataFile("other", <<>>, <<>>)}
    \cup {DataFile("legacy", classes, <<>>) : classes \in FileClasses}
    \cup {DataFile("new", classes, class) :
            classes \in FileClasses, class \in ClassNames \cup {<<>>, <<"z">>}}

\* Results of parse_students_list on pasted or imported lists.
ImportedLists ==
  {<<Student(<<"a", "b">>, BO)>>,
   <<Student(<<"c", "d">>, AL), Student(<<"a", "b">>, AL)>>}

\* Pasted pairing texts, line by line.
PairingTexts ==
  {<< <<"a", "b", " ", "-", " ", "c", "d">> >>,
   << <<"1", ".", " ", "c", "d", ":", "a", "b">>, <<"a", "b", " ", "x">> >>}

\* The state after __init__, which ends with load_data.
InitRoster ==
  /\ EngineIdle
  /\ scanned = NoScan
  /\ resolved = NoCall
  /\ extracted = NoExtract
  /\ listed = NoListed
  /\ ToolIdle
  /\ last_op = "load"
  /\ \E file \in DataFiles :
       LET loaded == load_data(file)
       IN  /\ classes_data = loaded.classes_data
           /\ current_class = loaded.current_class
           /\ students = refresh_students_ref(loaded.classes_data,
                                              loaded.current_class)

\* What no handler of the two tabs touches.
roster_frame == <<archive_cache, files, report, pc, idx, success, failed, sync,
                  last_return, attempted, calls, scanned, resolved, extracted,
                  listed, selected, prepared>>

\* The current class becomes name, if there is such a class.
SelectedClass(name, op) ==
  /\ name # <<>>
  /\ name \in Keys(classes_data)
  /\ current_class' = name
  /\ students' = refresh_students_ref(classes_data, name)
  /\ parsed_pairings' = KeptPairings(parsed_pairings, students')
  /\ last_op' = op
  /\ dialog' = NoDialog
  /\ UNCHANGED <<classes_data, roster_frame>>

on_class_selected == \E name \in ClassNames : SelectedClass(name, "select")

on_pairing_class_selected ==
  \E name \in ClassNames : SelectedClass(name, "select_pairing")

create_class ==
  \E name \in ClassNames :
    /\ name \notin Keys(classes_data)
    /\ classes_data' = Append(classes_data, ClassInfo(name, <<>>))
    /\ current_class' = name
    /\ students' = refresh_students_ref(classes_data', name)
    /\ parsed_pairings' = KeptPairings(parsed_pairings, students')
    /\ last_op' = "create_class"
    /\ dialog' = NoDialog
    /\ UNCHANGED roster_frame

delete_class ==
  /\ current_class # <<>>
  /\ classes_data' = DictPop(classes_data, current_class)
  /\ current_class' = FirstClass(classes_data')
  /\ students' = refresh_students_ref(classes_data', current_class')
  /\ parsed_pairings' = KeptPairings(parsed_pairings, students')
  /\ last_op' = "delete_class"
  /\ dialog' = NoDialog
  /\ UNCHANGED roster_frame

\* A handler of the class tab changed self.students in place.
StudentsBecome(roster, op) ==
  /\ students' = roster
  /\ classes_data' = WriteThrough(classes_data, current_class, roster)
  /\ parsed_pairings' = KeptPairings(parsed_pairings, roster)
  /\ last_op' = op
  /\ UNCHANGED <<current_class, roster_frame>>

\* The result of a StudentDialog, as the handler reads it.
DialogResult(name, new_name, new_username) ==
  [shown |-> TRUE, name |-> name, new_name |-> new_name,
   new_username |-> new_username]

\* The dialog gives a name and a username, both stripped and not empty.
add_student_manual ==
  /\ current_class # <<>>
  /\ \E name \in StudentNames, username \in Usernames :
       /\ sanitize_username(username) # <<>>
       /\ dialog' = NoDialog
       /\ StudentsBecome(SetStudent(students, name, sanitize_username(username)),
                         "add_student")

\* What the dialog of edit_student hands over: a new name, and a username
\* that may hold whitespace.  The handler tests the username again after
\* sanitizing it and does not rely on the test of the dialog.
EditedNames == StudentNames \cup {<<"x">>}
EditedUsernames == Usernames \cup {<<"b", " ", "o">>, <<" ">>}

\* edit_student on a selected entry, the dialog confirmed with one of the
\* names and one of the usernames.
EditStudent(names, usernames) ==
  /\ current_class # <<>>
  /\ \E i \in DOMAIN students, new_name \in names, new_username \in usernames :
       LET name == students[i].name
           sanitized == sanitize_username(new_username)
           popped == IF new_name # name THEN DictPop(students, name) ELSE students
       IN  /\ dialog' = DialogResult(name, new_name, new_username)
           /\ IF sanitized = <<>>
              THEN /\ last_op' = "edit_rejected"
                   /\ UNCHANGED <<students, classes_data, parsed_pairings,
                                  current_class, roster_frame>>
              ELSE StudentsBecome(SetStudent(popped, new_name, sanitized),
                                  "edit_student")

edit_student == EditStudent(StudentNames, Usernames)

delete_student ==
  /\ current_class # <<>>
  /\ dialog' = NoDialog
  /\ \E i \in DOMAIN students :
       StudentsBecome(DictPop(students, students[i].name), "delete_student")

\* import_students_paste and import_students_file, given what
\* parse_students_list made of the text.
import_students ==
  /\ current_class # <<>>
  /\ dialog' = NoDialog
  /\ \E parsed \in ImportedLists :
       StudentsBecome(UpdateStudents(students, parsed), "import_students")

parse_pairings ==
  /\ students # <<>>
  /\ \E text \in PairingTexts :
       parsed_pairings' = parse_pairings_content(text, students)
  /\ last_op' = "parse"
  /\ dialog' = NoDialog
  /\ UNCHANGED <<classes_data, current_class, students, roster_frame>>

clear_pairings ==
  /\ parsed_pairings' = <<>>
  /\ last_op' = "clear"
  /\ dialog' = NoDialog
  /\ UNCHANGED <<classes_data, current_class, students, roster_frame>>

NextRoster ==
  \/ on_class_selected
  \/ on_pairing_class_selected
  \/ create_class
  \/ delete_class
  \/ add_student_manual
  \/ edit_student
  \/ delete_student
  \/ import_students
  \/ parse_pairings
  \/ clear_pairings

SpecRoster == InitRoster /\ [][NextRoster]_vars

\* The class tab with edit_student alone, the dialog giving a third name too.
edit_student_renaming == EditStudent(EditedNames, EditedUsernames)

NextEdit == edit_student_renaming

SpecEdit == InitRoster /\ [][NextEdit]_vars

\* C17: the usernames stored in the parsed pairings do not change when the
\* roster or the class changes; only parse_pairings and clear_pairings change
\* the parsed pairing list.
C17_ParsedPairingsAreSnapshot ==
  [][last_op' \notin {"parse", "clear"} => parsed_pairings' = parsed_pairings]_vars

\* After a change of the roster or the class a stored username is no longer
\* what the roster gives for the name.
C17_Witness ==
  /\ last_op \in {"add_student", "edit_student", "delete_student",
                  "import_students", "select", "create_class", "delete_class"}
  /\ \E i \in DOMAIN parsed_pairings :
       /\ parsed_pairings[i].white_username # NOT_FOUND
       /\ parsed_pairings[i].white_username #
            find_username(parsed_pairings[i].white, students)

\* C18: current_class is empty or names a class of classes_data, and the
\* students find_username reads are those of that class, none when no class
\* is current.
C18_StudentsOfCurrentClass ==
  /\ current_class = <<>> \/ current_class \in Keys(classes_data)
  /\ students = IF current_class = <<>> THEN <<>>
                ELSE classes_data[IndexOf(classes_data, current_class)].students

\* Two classes with different students; the second one was selected and its
\* students are the ones in use.
C18_Witness ==
  /\ Len(classes_data) = 2
  /\ classes_data[1].students # <<>>
  /\ classes_data[2].students # <<>>
  /\ classes_data[1].students # classes_data[2].students
  /\ current_class = classes_data[2].name
  /\ last_op = "select"
  /\ students = classes_data[2].students

\* ------------------------------------------------------------------
\* The reason of a call that matched no game, and the choice of the list
\* ------------------------------------------------------------------

\* download_pairing_games got past the username check, matched no game and
\* returned a failure.
NoMatchReturn ==
  /\ pc = "returned"
  /\ ~last_return.ok
  /\ last_return.detail # ERR_INVALID_USERNAME
  /\ sync.matched_games = <<>>

\* The failure reasons of the requests of the call: of the two list
\* requests, and of the last archive request that failed.
FetchErrors == {sync.white_err, sync.black_err, sync.last_error} \ {""}

\* C19 as stated: when no game matched, an error of a request of the call
\* is reported if there was one; else 'no archives' if neither participant
\* had archive references; else 'no games in the recent days'.
C19_FetchErrorFirst ==
  NoMatchReturn =>
    IF FetchErrors # {} THEN last_return.detail \in FetchErrors
    ELSE IF sync.archives = <<>>
         THEN last_return.detail = ERR_NO_ARCHIVES
         ELSE last_return.detail = ERR_NO_RECENT_GAMES

\* C19: when no game matched and neither participant had archive references,
\* the reason is the error of the first list request, else that of the
\* second, else 'no archives'; when there were references, it is the error
\* of the last archive request that failed, else 'no games in the recent
\* days', and an error of a list request is not reported.
C19_ReasonPriority ==
  NoMatchReturn =>
    LET l == sync
    IN  last_return.detail =
          IF l.archives = <<>>
          THEN IF l.white_err # "" THEN l.white_err
               ELSE IF l.black_err # "" THEN l.black_err
               ELSE ERR_NO_ARCHIVES
          ELSE IF l.last_error # "" THEN l.last_error
               ELSE ERR_NO_RECENT_GAMES

\* The first list request failed, the second gave references, every archive
\* was fetched and no game matched: 'no games in the recent days'.
C19_Witness ==
  /\ NoMatchReturn
  /\ sync.white_err # ""
  /\ sync.archives # <<>>
  /\ sync.last_error = ""
  /\ last_return.detail = ERR_NO_RECENT_GAMES

\* The call is past its list requests: it scans or writes, or has returned
\* after the username check.
ListsSettled ==
  \/ pc \in {"scan", "write"}
  \/ pc = "returned" /\ last_return.detail # ERR_INVALID_USERNAME

\* C20: the list of the second participant is requested exactly when the
\* list of the first is empty or failed, and is then the source of the
\* archives to scan; the call returns at this step, with a failure, only when
\* both lists are empty or failed.
C20_SecondListIsFallback ==
  ListsSettled =>
    /\ sync.black_asked <=> sync.white_list = <<>>
    /\ sync.archives = IF sync.white_list # <<>> THEN sync.white_list
                       ELSE sync.black_list
    /\ (pc \in {"scan", "write"}) => sync.archives # <<>>
    /\ (pc = "returned" /\ sync.archives = <<>>) =>
         (~last_return.ok /\ sync.white_list = <<>> /\ sync.black_list = <<>>)

\* The first list request failed, the second gave references, and the scan
\* runs on them.
C20_Witness ==
  /\ pc = "scan"
  /\ sync.white_err # ""
  /\ sync.black_asked
  /\ sync.black_list # <<>>
  /\ sync.archives = sync.black_list

\* ------------------------------------------------------------------
\* The references the scan loop takes of an archive list
\* ------------------------------------------------------------------

\* Longest run of months older than the recency window in an archive list,
\* and the most references of other kinds in it.
MaxOldArchives == 20
MaxExtraArchives == 2

\* reversed(seq)
Reversed(seq) == [i \in DOMAIN seq |-> seq[Len(seq) + 1 - i]]

\* The references the scan loop hands to get_archive_games, in its order:
\* for archive_url in reversed(considered_archives)
ScanOrder(archives) == Reversed(ConsideredArchives(archives))

\* n consecutive months that ended before the recency window, oldest first.
OldArchives(n) ==
  [i \in 1..n |-> ArchiveUrl(Lower(AL), CurrentTotal - 3 - (n - i))]

\* References of the current month, of the month two months back, of a
\* month the clock has not reached, and one that does not end in /YYYY/MM.
ExtraArchives ==
  {ArchiveUrl(Lower(AL), ym) :
     ym \in {CurrentTotal, CurrentTotal - 2, CurrentTotal + 1, NoMonth}}

\* Archive lists: a run of old months with other references put in at one
\* place, no reference twice.
ArchiveLists ==
  {SubSeq(OldArchives(x[1]), 1, x[2]) \o x[3]
     \o SubSeq(OldArchives(x[1]), x[2] + 1, x[1]) :
     x \in {y \in (0..MaxOldArchives) \X (0..MaxOldArchives)
                    \X SeqsUpTo(ExtraArchives, MaxExtraArchives) :
              /\ y[2] <= y[1]
              /\ \A i, j \in DOMAIN y[3] : y[3][i] = y[3][j] => i = j}}

\* download_pairing_games holding the archive list of a participant.
InitSelect ==
  /\ EngineIdle
  /\ scanned = NoScan
  /\ students = <<>>
  /\ resolved = NoCall
  /\ extracted = NoExtract
  /\ classes_data = <<>>
  /\ current_class = <<>>
  /\ last_op = "none"
  /\ listed = NoListed
  /\ prepared = NoPrepared
  /\ dialog = NoDialog
  /\ \E archives \in ArchiveLists :
       selected = [NoSelected EXCEPT !.archives = archives]

\* Lines 773-777 of download_pairing_games on the list.
SelectArchives ==
  /\ ~selected.done
  /\ selected' = [selected EXCEPT !.done = TRUE,
                                  !.scan_order = ScanOrder(selected.archives)]
  /\ UNCHANGED <<download_vars, scanned, students, resolved, extracted,
                 classes_data, current_class, last_op, listed, prepared, dialog>>

NextSelect == SelectArchives

SpecSelect == InitSelect /\ [][NextSelect]_vars

\* The references the scan loop takes, and those of the list, as sets.
ScannedSet == {selected.scan_order[i] : i \in DOMAIN selected.scan_order}

ListedWhere(Test(_)) ==
  {selected.archives[i] :
     i \in {j \in DOMAIN selected.archives : Test(selected.archives[j])}}

\* The last archive_month_limit references of the list, by position.
TailSet ==
  {selected.archives[i] :
     i \in {j \in DOMAIN selected.archives :
              j > Len(selected.archives) - archive_month_limit}}

\* The reference encodes a month that is the current month or one of the
\* two months before it.
InWindow(url) == url.ym # NoMonth /\ (CurrentTotal - url.ym) \in 0..2

\* The reference encodes no month, or a month that is not more than two
\* months before the current month.
NotBeforeWindow(url) == url.ym = NoMonth \/ CurrentTotal - url.ym <= 2

\* C21 as stated: the scanned references are exactly those of the list whose
\* encoded month lies in the window of the current month and the two months
\* before it, when there is one; otherwise the last archive_month_limit
\* references of the list.
C21_ScansWindowOrTail ==
  selected.done =>
    ScannedSet = IF ListedWhere(InWindow) # {} THEN ListedWhere(InWindow)
                 ELSE TailSet

\* C21: the scanned references are exactly those of the list that encode no
\* month or a month not more than two months before the current month (a
\* later month included), when there is one; otherwise the last
\* archive_month_limit references of the list, or all of a shorter list.
C21_ScansRecentOrTail ==
  selected.done =>
    /\ ScannedSet = IF ListedWhere(NotBeforeWindow) # {}
                    THEN ListedWhere(NotBeforeWindow)
                    ELSE TailSet
    /\ Len(selected.scan_order) = Cardinality(ScannedSet)
    /\ (ListedWhere(NotBeforeWindow) = {}
          /\ Len(selected.archives) <= archive_month_limit)
         => Len(selected.scan_order) = Len(selected.archives)

\* A list with a reference that encodes no month and an old month: the
\* first is scanned, the second is not.
C21_Witness ==
  /\ selected.done
  /\ \E i \in DOMAIN selected.scan_order : selected.scan_order[i].ym = NoMonth
  /\ \E i \in DOMAIN selected.archives :
       /\ ~NotBeforeWindow(selected.archives[i])
       /\ selected.archives[i] \notin ScannedSet

\* ------------------------------------------------------------------
\* The seventh tier of the resolver
\* ------------------------------------------------------------------

\* The rule of tier 7 as stated: equal after the stripping and lower-casing,
\* or one within the other with lengths at most two apart.  The stripping is
\* taken as the source's, which keeps the underscore with letters and digits.
FuzzyMatches(name, real_name) ==
  LET clean_name == StripNonWord(Lower(name))
      clean_real == StripNonWord(Lower(real_name))
      diff == Len(clean_name) - Len(clean_real)
  IN  \/ clean_name = clean_real
      \/ /\ Contains(clean_name, clean_real) \/ Contains(clean_real, clean_name)
         /\ diff <= 2 /\ 0 - diff <= 2

FuzzyHits(name, roster) ==
  {i \in DOMAIN roster : FuzzyMatches(name, roster[i].name)}

\* No entry of the roster matches the token at tiers 1 to 6.
MissesEarlierTiers(name, roster) ==
  \A tier \in 1..6 : Hits(tier, Strip(name), roster) = {}

\* C22: a token that matches no entry at tiers 1 to 6, and that the rule of
\* tier 7 (equal after stripping the characters that are no letters or
\* digits and lower-casing, or one within the other with lengths at most two
\* apart)
\* matches with an entry, resolves to the username of the first such entry.
C22_FuzzyTierResolves ==
  (/\ resolved.done
   /\ resolved.name # <<>>
   /\ MissesEarlierTiers(resolved.name, students)
   /\ FuzzyHits(Strip(resolved.name), students) # {}) =>
    resolved.username = students[Min(FuzzyHits(Strip(resolved.name), students))].username

\* ------------------------------------------------------------------
\* Properties of the batch loop and of the cache
\* ------------------------------------------------------------------

\* The loop is about to take up a pairing.
AtPairing == pc = "loop" /\ idx <= Len(parsed_pairings)

\* a username that is empty once its whitespace is removed
EmptySanitized(username) == \A i \in DOMAIN username : username[i] \in SpaceChars

\* C23: download_pairing_games, called with a username that is empty after
\* its whitespace is removed, returns failure with the reason 'invalid
\* username' at once: no request has been sent, no archive call made, the
\* cache and the files are as before.
C23_EmptyUsernameRejected ==
  [][(/\ AtPairing
      /\ parsed_pairings[idx].white_username # NOT_FOUND
      /\ parsed_pairings[idx].black_username # NOT_FOUND
      /\ \/ EmptySanitized(parsed_pairings[idx].white_username)
         \/ EmptySanitized(parsed_pairings[idx].black_username))
       => /\ pc' = "returned"
          /\ ~last_return'.ok
          /\ last_return'.detail = ERR_INVALID_USERNAME
          /\ sync'.requests = 0
          /\ calls' = calls
          /\ archive_cache' = archive_cache
          /\ files' = files]_vars

\* A call has returned 'invalid username' without a request, after an earlier
\* pairing of the batch was taken up.
C23_Witness ==
  /\ pc = "returned"
  /\ last_return.detail = ERR_INVALID_USERNAME
  /\ sync.requests = 0
  /\ idx > 1

\* The last call of get_archive_games on u, when this step made one.
NewCallOn(u) ==
  IF u \in DOMAIN calls' /\ calls'[u] # (IF u \in DOMAIN calls THEN calls[u] ELSE <<>>)
  THEN {calls'[u][Len(calls'[u])]}
  ELSE {}

\* C26: no step removes or replaces an entry of the archive cache; a step
\* adds at most one entry, and only as a call of get_archive_games on a
\* reference that was not cached, that sent its request and succeeded, the
\* entry being the games it returned; a call that failed leaves the cache
\* as it was.
C26_CacheAppendOnly ==
  [][/\ \A u \in DOMAIN archive_cache :
          u \in DOMAIN archive_cache' /\ archive_cache'[u] = archive_cache[u]
     /\ Cardinality(DOMAIN archive_cache' \ DOMAIN archive_cache) <= 1
     /\ \A u \in DOMAIN archive_cache' \ DOMAIN archive_cache :
          /\ NewCallOn(u) # {}
          /\ \A call \in NewCallOn(u) :
               call.sent /\ call.ok /\ call.games = archive_cache'[u]
     /\ \A u \in DOMAIN calls' :
          \A call \in NewCallOn(u) : ~call.ok => archive_cache' = archive_cache]_vars

\* The cache holds the games of one reference, and a call on another
\* reference has failed and left no entry.
C26_Witness ==
  /\ \E u \in DOMAIN archive_cache : archive_cache[u] # <<>>
  /\ \E u \in DOMAIN calls :
       /\ u \notin DOMAIN archive_cache
       /\ \E i \in DOMAIN calls[u] : calls[u][i].sent /\ ~calls[u][i].ok

\* C27: when the batch writes its report, the succeeded pairings and the
\* failed entries add up to the number of pairings, and the failed entries
\* carry strictly increasing pairing indexes.
C27_ReportCountsAddUp ==
  /\ (pc = "loop" /\ idx > Len(parsed_pairings)) =>
       success + Len(failed) = Len(parsed_pairings)
  /\ report.written =>
       /\ report.total = Len(parsed_pairings)
       /\ report.success + Len(report.failed) = report.total
       /\ \A i, j \in DOMAIN report.failed :
            i < j => report.failed[i][1] < report.failed[j][1]
       /\ \A i \in DOMAIN report.failed : report.failed[i][1] \in 1..report.total

\* A report of a batch with a pairing that succeeded and one that failed.
C27_Witness ==
  /\ report.written
  /\ report.success > 0
  /\ report.failed # <<>>

\* C28: a pairing with a name that resolved to the not-found value gets one
\* failed entry, 'username not matched', as the loop takes it up, and the
\* loop goes on to the next pairing: download_pairing_games is not called,
\* no request is sent, no archive call made, no file written.
C28_UnresolvedNeverFetched ==
  [][(/\ AtPairing
      /\ \/ parsed_pairings[idx].white_username = NOT_FOUND
         \/ parsed_pairings[idx].black_username = NOT_FOUND)
       => /\ failed' = Append(failed, <<idx, ERR_UNMATCHED>>)
          /\ success' = success
          /\ idx' = idx + 1
          /\ pc' = "loop"
          /\ sync' = NoSync
          /\ last_return' = last_return
          /\ calls' = calls
          /\ archive_cache' = archive_cache
          /\ files' = files]_vars

\* The batch has ended with an unresolved pairing among its failed entries.
C28_Witness ==
  /\ report.written
  /\ \E i \in DOMAIN report.failed :
       /\ report.failed[i][2] = ERR_UNMATCHED
       /\ Unresolved(parsed_pairings[report.failed[i][1]])

\* ------------------------------------------------------------------
\* The pairs the extractor returns
\* ------------------------------------------------------------------

\* The text consists of digits only.
OnlyDigits(s) == s # <<>> /\ {s[i] : i \in DOMAIN s} \subseteq DigitChars

\* What pattern k finds in the line is a pair of names to return.
YieldsPair(k, line) ==
  LET m == MatchPattern(k, line)
  IN  /\ m.matched
      /\ m.white # <<>> /\ m.black # <<>>
      /\ ~OnlyDigits(m.white) /\ ~OnlyDigits(m.black)

\* C24: a pairing the extractor returns has a left and a right token that
\* are not empty and do not consist of digits only; the extractor returns no
\* pairing exactly when no pattern finds such a pair in the line.
C24_PairsAreNames ==
  extracted.done =>
    LET line == NormalizeLine(extracted.line)
        result == extracted.result
    IN  /\ result.found =>
             /\ result.white # <<>> /\ result.black # <<>>
             /\ ~OnlyDigits(result.white) /\ ~OnlyDigits(result.black)
        /\ result.found <=> \E k \in 1..Len(Patterns) : YieldsPair(k, line)
        /\ ~result.found => result = NoPairing

\* A line in which a pattern finds a token of digits only: that pair is
\* passed over, and a later pattern gives the pairing.
C24_Witness ==
  /\ extracted.done
  /\ extracted.result.found
  /\ \E k \in 1..Len(Patterns) :
       LET m == MatchPattern(k, NormalizeLine(extracted.line))
       IN  m.matched /\ OnlyDigits(m.black)

\* ------------------------------------------------------------------
\* The download directory of a batch
\* ------------------------------------------------------------------

\* The last second of the session's local clock.
MaxClock == 3

\* Round names as download_games passes them: stripped, "Round" when empty.
RoundNames == {<<"A">>, <<"B">>}

\* datetime.now().strftime("_%Y%m%d_%H%M%S"): the local time cut to its second
FolderSuffix(clock) == <<"_", ToString(clock)>>

\* f"{safe_class}-round-{safe_round}"
FolderName(class, round_name) ==
  SafeName(class, <<"c", "l", "a", "s", "s">>)
    \o <<"-", "r", "o", "u", "n", "d", "-">>
    \o SafeName(round_name, <<"R", "o", "u", "n", "d">>)

\* The directory _prepare_download_folder returns, given the directories of
\* base_dir and the local time.
DownloadFolder(class, round_name, dirs, clock) ==
  LET folder_name == FolderName(class, round_name)
  IN  IF folder_name \in dirs THEN folder_name \o FolderSuffix(clock)
      ELSE folder_name

\* The session with a class selected or none, base_dir holding no directory.
InitFolder ==
  /\ EngineIdle
  /\ scanned = NoScan
  /\ resolved = NoCall
  /\ extracted = NoExtract
  /\ listed = NoListed
  /\ last_op = "none"
  /\ selected = NoSelected
  /\ dialog = NoDialog
  /\ students = <<>>
  /\ \E class \in {<<>>, <<"c", "1">>} :
       /\ current_class = class
       /\ classes_data = IF class = <<>> THEN <<>> ELSE <<ClassInfo(class, <<>>)>>
  /\ prepared = NoPrepared

folder_frame == <<download_vars, scanned, students, resolved, extracted,
                  classes_data, current_class, last_op, listed, selected, dialog>>

\* _prepare_download_folder, called by download_games with a round name;
\* folder.mkdir(parents=True, exist_ok=True) makes the directory or leaves
\* the one that is there.
prepare_download_folder ==
  /\ \E round_name \in RoundNames :
       LET folder == DownloadFolder(current_class, round_name, prepared.dirs,
                                    prepared.clock)
       IN  prepared' = [prepared EXCEPT
                          !.dirs = @ \cup {folder},
                          !.done = TRUE,
                          !.before = prepared.dirs,
                          !.base = FolderName(current_class, round_name),
                          !.folder = folder]
  /\ UNCHANGED folder_frame

\* The local clock reaches its next second.
ClockTick ==
  /\ prepared.clock < MaxClock
  /\ prepared' = [prepared EXCEPT !.clock = @ + 1]
  /\ UNCHANGED folder_frame

\* The local clock is set back: datetime.now() is local time, which repeats
\* an hour when daylight saving time ends and jumps when the clock is corrected.
ClockSetBack ==
  /\ prepared.clock > 1
  /\ prepared' = [prepared EXCEPT !.clock = @ - 1]
  /\ UNCHANGED folder_frame

NextFolder ==
  \/ prepare_download_folder
  \/ ClockTick
  \/ ClockSetBack

SpecFolder == InitFolder /\ [][NextFolder]_vars

\* C25: whenever the base directory '<class>-round-<round>' exists before
\* the call, _prepare_download_folder returns a directory that did not
\* exist before the call.
C25_FreshFolderOnCollision ==
  (prepared.done /\ prepared.base \in prepared.before) =>
    prepared.folder \notin prepared.before

\* ------------------------------------------------------------------
\* Games without a time
\* ------------------------------------------------------------------

\* The field holds a number, or a string one of the two formats parses.
UsableTime(f) == f.k = "num" \/ (f.k = "str" /\ f.v # Unparseable)

\* None of the four fields of the game holds a usable time.
Untimed(game) ==
  /\ ~UsableTime(game.end_time)
  /\ ~UsableTime(game.finish_time)
  /\ ~UsableTime(game.start_time)
  /\ ~UsableTime(game.last_activity)

\* C29: a game between the two participants of the pairing in which none of
\* end_time, finish_time, start_time, last_activity holds a usable time is
\* kept as a matched game, whatever the retention window.
C29_UntimedGameKept ==
  (scanned.done /\ scanned.matched /\ Untimed(scanned.game)) => scanned.kept

\* A game of the two participants whose end_time is present and is neither
\* a number nor a parseable string has been kept.
C29_Witness ==
  /\ scanned.done
  /\ scanned.matched
  /\ scanned.game.end_time.k \in {"other", "str"}
  /\ Untimed(scanned.game)
  /\ scanned.kept

\* ------------------------------------------------------------------
\* The effect of edit_student on the roster
\* ------------------------------------------------------------------

\* The entries of a roster, and those under other names than the two given.
Entries(roster) == {roster[i] : i \in DOMAIN roster}
OtherEntries(roster, names) == {e \in Entries(roster) : e.name \notin names}

\* The rosters of the classes other than the current one.
OtherClasses(classes, class) == {c \in Entries(classes) : c.name # class}

\* C30: edit_student, confirmed with a name and a username that is not
\* empty once its whitespace is removed, leaves no entry under the old name
\* (unless the name is kept), one entry under the new name with the username
\* without its whitespace, and every entry under another name as it was;
\* with a username of whitespace only, the roster and the classes are as
\* before.
C30_EditReplacesEntry ==
  [][(last_op' \in {"edit_student", "edit_rejected"}) =>
       LET d == dialog'
           clean == RemoveChars(d.new_username, SpaceChars)
       IN  /\ d.shown
           /\ d.name \in Keys(students)
           /\ IF clean = <<>>
              THEN /\ students' = students
                   /\ classes_data' = classes_data
              ELSE /\ d.new_name # d.name => d.name \notin Keys(students')
                   /\ {e \in Entries(students') : e.name = d.new_name}
                        = {Student(d.new_name, clean)}
                   /\ Len(students') = Cardinality(Keys(students'))
                   /\ OtherEntries(students', {d.name, d.new_name})
                        = OtherEntries(students, {d.name, d.new_name})
                   /\ OtherClasses(classes_data', current_class)
                        = OtherClasses(classes_data, current_class)
                   /\ current_class \in Keys(classes_data) =>
                        classes_data'[IndexOf(classes_data', current_class)].students
                          = students']_vars

\* An entry has been renamed and given a username that was typed with a
\* blank in it, next to an entry under a third name.
C30_Witness ==
  /\ last_op = "edit_student"
  /\ dialog.name # dialog.new_name
  /\ dialog.new_username # sanitize_username(dialog.new_username)
  /\ dialog.name \notin Keys(students)
  /\ OtherEntries(students, {dialog.name, dialog.new_name}) # {}
====
